---- MODULE Spec2Model ----
(***************************************************************************)
(* State-machine model of the traffic detection system:                    *)
(*   object_tracking.py          process_frame, nms, calculate_iou          *)
(*   voice_alert.py              play_voice_alert and its engine lock       *)
(*   traffic_detection_system.py SpeedAnalyzer and the MainApp life cycle   *)
(*                                                                         *)
(* Time is counted in milliseconds (time.time() * 1000).  Speeds are exact *)
(* rationals <<numerator, denominator>> in km/h.                           *)
(***************************************************************************)
EXTENDS Integers, Sequences, FiniteSets, TLC

VARIABLES
    \* ---- object_tracking.py: the values threaded through process_frame
    track_history,   \* id -> sequence of (x, y) points, newest last
    entered_ids,     \* ids currently counted as inside the count polygon
    entry_time,      \* id -> time of the recorded entry into the alert polygon
    warned_ids,      \* ids whose alert has been emitted
    count_passed,
    count_exited,
    now,             \* the clock read by time.time()
    nframes,         \* number of process_frame calls made so far
    \* ---- voice_alert.py
    voice_threads,   \* sequence of thread positions, in start order
    engine_lock,     \* 0 when free, else the index of the holding thread
    \* ---- traffic_detection_system.py: SpeedAnalyzer
    speed_analyzer,  \* [ppm, tracks, speeds, all]: the fields of the instance
    nupdates,        \* number of SpeedAnalyzer.update calls made so far
    sa_call,         \* arguments of the last update call, <<>> before the first
    \* ---- traffic_detection_system.py: MainApp, and its DatabaseUtils
    app,             \* the attributes of MainApp that the handlers read and write
    db,              \* [latest_data, last_write_time, rows, closed]
    last_op,         \* the handler that ran last
    \* ---- observation of the runs (history variables)
    last,            \* id -> what process_frame did for the id in the last frame
    win,             \* id -> the id's observations on its last <= 3 successive frames
    alert_count,     \* id -> number of alert events emitted for the id
    passed_by,       \* id -> number of count_passed increments caused by the id
    exited_by,       \* id -> number of count_exited increments caused by the id
    classes_seen,    \* id -> the classes the id was processed with
    in_since,        \* id -> start of its current run of in-alert-zone frames, -1 if none
    rearmed,         \* id -> its entry_time was removed after its alert was emitted
    locked_frames,   \* number of process_frame calls made while engine_lock was held
    appended,        \* id -> every (x, y) point process_frame appended for the id, in order
    frame_in,        \* the detections the last process_frame call received
    frame_out,       \* the detections the last call's tracking loop ran over, in order
    warning_display, \* the track ids of the lines appended to the warning_display widget
    \* ---- observation of the calls of SpeedAnalyzer.update and calculate_iou
    updated_ids,     \* the track ids passed to update on the current analyzer instance
    iou_call,        \* [box1, box2, result] of the last calculate_iou call, <<>> if none
    nms_call,        \* [boxes, scores, thr, keep] of the last nms call, <<>> if none
    db_call          \* [n, op, snapshot, t, ok]: the last call on the DatabaseUtils instance

trackVars == <<track_history, entered_ids, entry_time, warned_ids, count_passed,
               count_exited, now, nframes>>
voiceVars == <<voice_threads, engine_lock>>
obsVars   == <<last, win, alert_count, passed_by, exited_by, classes_seen,
               in_since, rearmed, locked_frames, appended, frame_in, frame_out,
               warning_display>>
speedVars == <<speed_analyzer, nupdates, sa_call>>
appVars   == <<app, db, last_op>>
callVars  == <<updated_ids, iou_call, nms_call, db_call>>
vars      == <<trackVars, voiceVars, obsVars, speedVars, appVars, callVars>>

----------------------------------------------------------------------------
(* Bounds of the model *)

MaxFrames == 5

MaxUpdates == 4

\* frames of the long single-track stream, and the frames of it that may differ
\* from the default position
MaxAppends == 32

MaxJumps == 2

\* frames of the runs that exercise the suppression pipeline
MaxSuppressFrames == 2

\* updates of the long stream of one track
MaxStream == 7

\* the longest box array passed to nms on its own
MaxNmsBoxes == 3

\* calls made on one DatabaseUtils instance
MaxDbCalls == 5

\* frames of the two-track runs
MaxOccupancyFrames == 3

TrackIds == {1, 2}

----------------------------------------------------------------------------
(* Program constants *)

ALERT_OBJ_LIST == {0, 2}

HISTORY_LEN == 30

DWELL_MS == 2000

FRAME_WIDTH == 1920

FRAME_HEIGHT == 1080

PIXELS_PER_METER == 5

SPEED_WINDOW == 5

MAX_SPEED_KMH == 200

WRITE_INTERVAL_MS == 5000

STATUS_EVERY == 5

polygon_points == << <<0, 500>>, <<0, 670>>, <<1918, 630>>, <<1918, 463>> >>

polygon_points1 == << <<120, 470>>, <<1731, 428>>, <<1918, 133>>, <<1918, 0>>, <<1350, 0>> >>

----------------------------------------------------------------------------
(* Helpers *)

Max(a, b) == IF a >= b THEN a ELSE b

Min(a, b) == IF a <= b THEN a ELSE b

\* dict assignment d[k] = v
Put(d, k, v) == [j \in DOMAIN d \cup {k} |-> IF j = k THEN v ELSE d[j]]

\* del d[k]
Del(d, k) == [j \in DOMAIN d \ {k} |-> d[j]]

----------------------------------------------------------------------------
(* cv2.pointPolygonTest: +1 inside, 0 on an edge, -1 outside.  With        *)
(* measureDist=True the result is the signed distance, which has the same  *)
(* sign; process_frame only compares the result with 0.                    *)

OnSegment(a, b, p) ==
    /\ (b[1] - a[1]) * (p[2] - a[2]) - (b[2] - a[2]) * (p[1] - a[1]) = 0
    /\ Min(a[1], b[1]) <= p[1] /\ p[1] <= Max(a[1], b[1])
    /\ Min(a[2], b[2]) <= p[2] /\ p[2] <= Max(a[2], b[2])

\* the horizontal ray from p to the right crosses the edge a-b
Crosses(a, b, p) ==
    /\ (a[2] > p[2]) # (b[2] > p[2])
    /\ LET dy  == b[2] - a[2]
           lhs == (p[1] - a[1]) * dy
           rhs == (b[1] - a[1]) * (p[2] - a[2])
       IN  IF dy > 0 THEN lhs < rhs ELSE lhs > rhs

PolyEdges(poly) ==
    {<<poly[i], poly[(i % Len(poly)) + 1]>> : i \in 1..Len(poly)}

pointPolygonTest(poly, p) ==
    IF \E e \in PolyEdges(poly) : OnSegment(e[1], e[2], p) THEN 0
    ELSE IF Cardinality({e \in PolyEdges(poly) : Crosses(e[1], e[2], p)}) % 2 = 1
         THEN 1 ELSE -1

----------------------------------------------------------------------------
(* nms: greedy non-maximum suppression over (x, y, w, h) boxes.            *)
(* Indices are 1-based here; scores are confidences in hundredths.         *)

RECURSIVE SelectFrom(_, _)
\* the indices k >= i, ascending, whose flag is TRUE
SelectFrom(flags, i) ==
    IF i > Len(flags) THEN <<>>
    ELSE IF flags[i] THEN <<i>> \o SelectFrom(flags, i + 1)
         ELSE SelectFrom(flags, i + 1)

\* np.where(flags)[0], 1-based
SelectIdx(flags) == SelectFrom(flags, 1)

Pick(seq, idx) == [k \in 1..Len(idx) |-> seq[idx[k]]]

\* areas = (x2 - x1 + 1) * (y2 - y1 + 1)
NmsArea(b) == (b[3] + 1) * (b[4] + 1)

\* inter = max(0, xx2 - xx1 + 1) * max(0, yy2 - yy1 + 1)
NmsInter(a, b) ==
    LET xx1 == Max(a[1], b[1])
        yy1 == Max(a[2], b[2])
        xx2 == Min(a[1] + a[3], b[1] + b[3])
        yy2 == Min(a[2] + a[4], b[2] + b[4])
    IN  Max(0, xx2 - xx1 + 1) * Max(0, yy2 - yy1 + 1)

\* variant: ovr = inter / areas[order[1:]], the overlap relative to the candidate
NmsKeeps_OverCandidate(a, b, thrNum, thrDen) ==
    thrDen * NmsInter(a, b) <= thrNum * NmsArea(b)

\* ovr <= iou_threshold, with ovr = inter / (area_a + area_b - inter)
NmsKeeps(a, b, thrNum, thrDen) ==
    NmsInter(a, b) * thrDen <= thrNum * (NmsArea(a) + NmsArea(b) - NmsInter(a, b))

\* scores.argsort()[::-1]: the permutations that sort the scores descending.
\* The order of equal scores is not fixed by the sort.
ArgsortDesc(scores) ==
    LET n == Len(scores)
    IN  {p \in [1..n -> 1..n] :
            /\ \A i, j \in 1..n : i # j => p[i] # p[j]
            /\ \A i \in 1..n : i < n => scores[p[i]] >= scores[p[i + 1]]}

RECURSIVE NmsLoop(_, _, _, _, _)
NmsLoop(boxes, order, keep, thrNum, thrDen) ==
    IF Len(order) = 0 THEN keep
    ELSE LET i    == order[1]
             rest == Tail(order)
             inds == SelectIdx([k \in 1..Len(rest) |->
                        NmsKeeps(boxes[i], boxes[rest[k]], thrNum, thrDen)])
         IN  NmsLoop(boxes, Pick(rest, inds), Append(keep, i), thrNum, thrDen)

\* variant: every index is returned, in score order
nms_KeepAll(boxes, order, thrNum, thrDen) == order

nms(boxes, order, thrNum, thrDen) ==
    IF Len(boxes) = 0 THEN <<>> ELSE NmsLoop(boxes, order, <<>>, thrNum, thrDen)

----------------------------------------------------------------------------
(* process_frame, lines 163-198: the suppression pipeline.  A detection is *)
(* [box |-> <<x, y, w, h>>, id, cls, score].                               *)

\* variant: no area filter
AreaOk_Any(b) == TRUE

\* box_area < frame_area / 5
AreaOk(b) == 5 * (b[3] * b[4]) < FRAME_HEIGHT * FRAME_WIDTH

\* 0.2 < w / h < 5.0
AspectOk(b) == b[4] > 0 /\ b[4] < 5 * b[3] /\ b[3] < 5 * b[4]

AreaFilter(dets) == Pick(dets, SelectIdx([i \in 1..Len(dets) |-> AreaOk(dets[i].box)]))

AspectFilter(dets) == Pick(dets, SelectIdx([i \in 1..Len(dets) |-> AspectOk(dets[i].box)]))

Boxes(dets) == [i \in 1..Len(dets) |-> dets[i].box]

Scores(dets) == [i \in 1..Len(dets) |-> dets[i].score]

\* the detections left after area filter, nms(0.4) and aspect-ratio filter
Suppress(valid, order) == AspectFilter(Pick(valid, nms(Boxes(valid), order, 4, 10)))

----------------------------------------------------------------------------
(* Input alphabets: the boxes, classes and clock steps the frames draw on  *)

BoxC == <<910, 530, 100, 60>>     \* center (960, 560): inside the count polygon

BoxC2 == <<960, 530, 100, 60>>    \* center (1010, 560): inside the count polygon

BoxA == <<1450, 170, 100, 60>>    \* center (1500, 200): inside the alert polygon

BoxA2 == <<1650, 70, 100, 60>>    \* center (1700, 100): inside the alert polygon

BoxN == <<250, 70, 100, 60>>      \* center (300, 100): outside both polygons

BoxD == <<900, 530, 200, 60>>     \* center (1000, 560): inside the count polygon

BoxD2 == <<920, 530, 200, 60>>    \* overlaps BoxD with IoU above 0.4

BoxS == <<900, 530, 60, 60>>      \* inside BoxD, IoU with BoxD below 0.4

BoxBig == <<460, 240, 1000, 500>> \* area 500000, above 1920 * 1080 / 5 = 414720

BoxWide == <<900, 530, 300, 60>>  \* w / h = 5.0; covers BoxD with IoU above 0.4

BoxThin == <<250, 70, 12, 60>>    \* w / h = 0.2

BoxEdge == <<1868, 520, 100, 60>> \* center (1918, 550): on the edge x = 1918 of the count polygon

AllBoxes == {BoxC, BoxC2, BoxA, BoxA2, BoxN, BoxD, BoxD2, BoxS, BoxBig, BoxWide, BoxThin,
             BoxEdge}

Classes == {0, 1}

Steps == {1000, 2100}

----------------------------------------------------------------------------
(* process_frame, lines 201-273: the loop over the surviving detections.   *)
(* The loop state s holds the values process_frame reads and returns:      *)
(*   th track_history, ei entered_ids, et entry_time, wi warned_ids,       *)
(*   cp count_passed, ce count_exited,                                     *)
(* and what the frame emitted: fired (ids whose warning frame was saved    *)
(* and whose voice thread was started, in order), warnings (the messages   *)
(* of current_warnings, by id), shown (displayed_warning_ids), and obs     *)
(* (per processed id, the branches taken).                                 *)

\* center = (x + w / 2, y + h / 2)
Center(b) == <<b[1] + b[3] \div 2, b[2] + b[4] \div 2>>

\* the two polygon tests of process_frame, tabulated over the centers in use
CountZoneTest == [c \in {Center(b) : b \in AllBoxes} |-> pointPolygonTest(polygon_points, c)]

AlertZoneTest == [c \in {Center(b) : b \in AllBoxes} |-> pointPolygonTest(polygon_points1, c)]

\* variant: pop() instead of pop(0), the newest point is removed
HistoryPush_DropNewest(track, b) ==
    LET t1 == Append(track, <<b[1], b[2]>>)
    IN  IF Len(t1) > HISTORY_LEN THEN SubSeq(t1, 1, Len(t1) - 1) ELSE t1

\* track.append((float(x), float(y))); if len(track) > 30: track.pop(0)
HistoryPush(track, b) ==
    LET t1 == Append(track, <<b[1], b[2]>>)
    IN  IF Len(t1) > HISTORY_LEN THEN Tail(t1) ELSE t1

\* variant: the entry test without the entered_ids guard
ShouldEnter_NoGuard(ids, id, cz) == cz >= 0

\* track_id not in entered_ids and pointPolygonTest(polygon_points, center, False) >= 0
ShouldEnter(ids, id, cz) == id \notin ids /\ cz >= 0

\* pointPolygonTest(polygon_points1, center, False) >= 0
InAlertZone(az) == az >= 0

\* variant: every class is treated as alert-eligible
AlertEligible_Any(cls) == TRUE

\* track_class in ALERT_OBJ_LIST
AlertEligible(cls) == cls \in ALERT_OBJ_LIST

\* variant: the dwell test with >= in place of >
DwellExceeded_Ge(t, t0) == t - t0 >= DWELL_MS

\* time.time() - entry_time[track_id] > 2
DwellExceeded(t, t0) == t - t0 > DWELL_MS

\* variant: the alert without the warned_ids guard
ShouldWarn_Always(wids, id) == TRUE

\* track_id not in warned_ids
ShouldWarn(wids, id) == id \notin wids

\* variant: the exit test includes the boundary
ShouldExit_Inclusive(ids, id, cz) == id \in ids /\ cz <= 0

\* track_id in entered_ids and pointPolygonTest(polygon_points, center, True) < 0
ShouldExit(ids, id, cz) == id \in ids /\ cz < 0

\* variant: a frame of a class outside ALERT_OBJ_LIST keeps the entry_time record
ClearOnIneligible_Never(inzone, elig, has) == FALSE

\* the else of "if track_class in ALERT_OBJ_LIST", inside the alert-zone test:
\* if track_id in entry_time: del entry_time[track_id]
ClearOnIneligible(inzone, elig, has) == inzone /\ ~elig /\ has

\* variant: the exit leaves the id in entered_ids
EnteredAfterExit_Kept(ids, id) == ids

\* entered_ids.remove(track_id)
EnteredAfterExit(ids, id) == ids \ {id}

\* variant: the exit keeps the entry_time record
ClearOnExit_Never(exit, has) == FALSE

\* if track_id in entry_time: del entry_time[track_id], inside the exit branch
ClearOnExit(exit, has) == exit /\ has

\* the elif of line 266 is attached to the alert-zone test of line 227
ExitBranchReached(az) == ~InAlertZone(az)

NoObs == [seen |-> FALSE, box |-> <<>>, cz |-> -1, az |-> -1, elig |-> FALSE, cls |-> -1,
          dp |-> 0, de |-> 0,
          alert |-> 0, overdue |-> FALSE, cleared |-> FALSE]

TrackOne(s, d, t) ==
    LET id      == d.id
        center  == Center(d.box)
        track   == IF id \in DOMAIN s.th THEN s.th[id] ELSE <<>>
        cz      == CountZoneTest[center]
        az      == AlertZoneTest[center]
        enter   == ShouldEnter(s.ei, id, cz)
        ei1     == IF enter THEN s.ei \cup {id} ELSE s.ei
        inzone  == InAlertZone(az)
        elig    == AlertEligible(d.cls)
        record  == inzone /\ elig /\ id \notin DOMAIN s.et
        overdue == inzone /\ elig /\ id \in DOMAIN s.et /\ DwellExceeded(t, s.et[id])
        show    == overdue /\ id \notin s.shown
        fire    == overdue /\ ShouldWarn(s.wi, id)
        drop    == ClearOnIneligible(inzone, elig, id \in DOMAIN s.et)
        exit    == ExitBranchReached(az) /\ ShouldExit(ei1, id, cz)
        clear   == drop \/ ClearOnExit(exit, id \in DOMAIN s.et)
    IN  [th       |-> Put(s.th, id, HistoryPush(track, d.box)),
         ei       |-> IF exit THEN EnteredAfterExit(ei1, id) ELSE ei1,
         et       |-> IF record THEN Put(s.et, id, t)
                      ELSE IF clear THEN Del(s.et, id) ELSE s.et,
         wi       |-> IF fire THEN s.wi \cup {id} ELSE s.wi,
         cp       |-> IF enter THEN s.cp + 1 ELSE s.cp,
         ce       |-> IF exit THEN s.ce + 1 ELSE s.ce,
         fired    |-> IF fire THEN Append(s.fired, id) ELSE s.fired,
         warnings |-> IF show THEN Append(s.warnings, id) ELSE s.warnings,
         shown    |-> IF show THEN s.shown \cup {id} ELSE s.shown,
         out      |-> Append(s.out, d),
         obs      |-> Put(s.obs, id,
                          [seen |-> TRUE, box |-> d.box, cz |-> cz, az |-> az, elig |-> elig,
                           cls |-> d.cls,
                           dp |-> IF enter THEN 1 ELSE 0,
                           de |-> IF exit THEN 1 ELSE 0,
                           alert |-> IF fire THEN 1 ELSE 0,
                           overdue |-> overdue, cleared |-> clear])]

RECURSIVE TrackLoop(_, _, _)
TrackLoop(s, dets, t) ==
    IF Len(dets) = 0 THEN s
    ELSE TrackLoop(TrackOne(s, Head(dets), t), Tail(dets), t)

\* the values process_frame is called with
FrameStart(th, ei, et, wi, cp, ce) ==
    [th |-> th, ei |-> ei, et |-> et, wi |-> wi, cp |-> cp, ce |-> ce,
     fired |-> <<>>, warnings |-> <<>>, shown |-> {}, out |-> <<>>, obs |-> <<>>]

\* variant: the tracking loop runs over the raw detections
FrameResult_Unfiltered(s, dets, order, t) ==
    IF Len(dets) = 0 THEN s ELSE TrackLoop(s, dets, t)

\* process_frame on the detections dets of one frame, read at clock value t;
\* order is the result of scores.argsort()[::-1] inside nms
FrameResult(s, dets, order, t) ==
    IF Len(dets) = 0 THEN s
    ELSE TrackLoop(s, Suppress(AreaFilter(dets), order), t)

----------------------------------------------------------------------------
(* SpeedAnalyzer.  Speeds are exact rationals <<n, d>> with d > 0, reduced; *)
(* the floating-point rounding of numpy is not modelled.  Positions are    *)
(* integer pixel pairs whose distances are whole numbers.                  *)

RECURSIVE Gcd(_, _)
Gcd(a, b) == IF b = 0 THEN a ELSE Gcd(b, a % b)

Abs(x) == IF x < 0 THEN -x ELSE x

Sign(x) == IF x > 0 THEN 1 ELSE IF x < 0 THEN -1 ELSE 0

\* n / d in lowest terms with a positive denominator; a division of a numpy
\* float by zero gives inf (<<1, 0>>), -inf (<<-1, 0>>) or nan (<<0, 0>>)
Rat(n, d) ==
    IF d = 0 THEN <<Sign(n), 0>>
    ELSE LET g == Gcd(Abs(n), Abs(d)) IN <<(Sign(d) * n) \div g, Abs(d) \div g>>

RatZero == <<0, 1>>

RatAdd(a, b) == Rat(a[1] * b[2] + b[1] * a[2], a[2] * b[2])

RatLess(a, b) == a[1] * b[2] < b[1] * a[2]

RECURSIVE RatSum(_)
RatSum(seq) == IF Len(seq) = 0 THEN RatZero ELSE RatAdd(Head(seq), RatSum(Tail(seq)))

\* np.mean(values) of a non-empty sequence
RatMean(seq) == LET t == RatSum(seq) IN Rat(t[1], t[2] * Len(seq))

\* np.linalg.norm(center - prev_pos)
Norm(a, b) ==
    LET sq == (a[1] - b[1]) * (a[1] - b[1]) + (a[2] - b[2]) * (a[2] - b[2])
    IN  CHOOSE n \in 0..(Abs(a[1] - b[1]) + Abs(a[2] - b[2])) : n * n = sq

\* SpeedAnalyzer(pixels_per_meter)
NewAnalyzer(ppm) == [ppm |-> ppm, tracks |-> <<>>, speeds |-> <<>>, all |-> {}]

\* variant: time_diff < 0.001
TimeDiffTooSmall_Lt(time_diff) == time_diff < 1

\* time_diff <= 0.001
TimeDiffTooSmall(time_diff) == time_diff <= 1

\* variant: the speed left in m/s, without the factor 3.6
SpeedKmh_MetersPerSecond(center, prev_pos, time_diff, ppm) ==
    Rat(Norm(center, prev_pos) * 1000, ppm * time_diff)

\* distance_pixels / pixels_per_meter / time_diff * 3.6, time_diff in ms
SpeedKmh(center, prev_pos, time_diff, ppm) ==
    Rat(Norm(center, prev_pos) * 3600, ppm * time_diff)

\* variant: 0 <= speed_km_per_h <= 200
SpeedInRange_Inclusive(v) == ~RatLess(v, RatZero) /\ ~RatLess(<<MAX_SPEED_KMH, 1>>, v)

\* 0 < speed_km_per_h < 200
SpeedInRange(v) == RatLess(RatZero, v) /\ RatLess(v, <<MAX_SPEED_KMH, 1>>)

\* speeds[speeds > 0]
ValidSpeeds(speeds) ==
    Pick(speeds, SelectIdx([k \in 1..Len(speeds) |-> RatLess(RatZero, speeds[k])]))

\* np.mean(valid_speeds) if len(valid_speeds) > 0 else 0
SmoothedSpeed(speeds) ==
    IF Len(ValidSpeeds(speeds)) > 0 THEN RatMean(ValidSpeeds(speeds)) ELSE RatZero

\* variant: previous position and time advanced only for an accepted sample
AdvanceBaseline_IfAccepted(tr, ok, center, timestamp) ==
    IF ok THEN [tr EXCEPT !.prev_pos = center, !.prev_time = timestamp] ELSE tr

\* self.tracks[track_id]['prev_pos'] = center; ...['prev_time'] = timestamp
AdvanceBaseline(tr, ok, center, timestamp) ==
    [tr EXCEPT !.prev_pos = center, !.prev_time = timestamp]

\* variant: the cursor stops at the last slot
NextIndex_Saturating(speed_index, n) == IF speed_index + 1 < n THEN speed_index + 1 ELSE speed_index

\* (speed_index + 1) % len(speeds)
NextIndex(speed_index, n) == (speed_index + 1) % n

\* SpeedAnalyzer.update(track_id, center, timestamp); speed_index is 0-based
SpeedUpdate(sa, track_id, center, timestamp) ==
    LET all1 == sa.all \cup {track_id}
    IN  IF track_id \notin DOMAIN sa.tracks
        THEN [sa EXCEPT !.all = all1,
                        !.tracks = Put(sa.tracks, track_id,
                            [prev_pos |-> center, prev_time |-> timestamp,
                             speeds |-> [k \in 1..SPEED_WINDOW |-> RatZero],
                             speed_index |-> 0, last_seen |-> timestamp,
                             positions |-> <<center>>])]
        ELSE LET tr        == sa.tracks[track_id]
                 tr1       == [tr EXCEPT !.last_seen = timestamp,
                                         !.positions = Append(@, center)]
                 time_diff == timestamp - tr.prev_time
             IN  IF TimeDiffTooSmall(time_diff)
                 THEN [sa EXCEPT !.all = all1, !.tracks = Put(sa.tracks, track_id, tr1)]
                 ELSE LET v       == SpeedKmh(center, tr.prev_pos, time_diff, sa.ppm)
                          ok      == SpeedInRange(v)
                          speeds1 == [tr.speeds EXCEPT ![tr.speed_index + 1] = v]
                          tr2     == IF ok
                                     THEN [tr1 EXCEPT !.speeds = speeds1,
                                               !.speed_index = NextIndex(tr.speed_index, Len(speeds1))]
                                     ELSE tr1
                      IN  [sa EXCEPT !.all = all1,
                               !.tracks = Put(sa.tracks, track_id,
                                              AdvanceBaseline(tr2, ok, center, timestamp)),
                               !.speeds = IF ok THEN Put(sa.speeds, track_id, SmoothedSpeed(speeds1))
                                          ELSE sa.speeds]

----------------------------------------------------------------------------
(* State after initialize_tracking *)

EmptyMap == <<>>

InitTracking ==
    /\ track_history = EmptyMap
    /\ entered_ids = {}
    /\ entry_time = EmptyMap
    /\ warned_ids = {}
    /\ count_passed = 0
    /\ count_exited = 0
    /\ now = 0
    /\ nframes = 0

InitVoice ==
    /\ voice_threads = <<>>
    /\ engine_lock = 0

InitObs ==
    /\ last = [id \in TrackIds |-> NoObs]
    /\ win = [id \in TrackIds |-> <<>>]
    /\ alert_count = [id \in TrackIds |-> 0]
    /\ passed_by = [id \in TrackIds |-> 0]
    /\ exited_by = [id \in TrackIds |-> 0]
    /\ classes_seen = [id \in TrackIds |-> {}]
    /\ in_since = [id \in TrackIds |-> -1]
    /\ rearmed = [id \in TrackIds |-> FALSE]
    /\ locked_frames = 0
    /\ appended = [id \in TrackIds |-> <<>>]
    /\ frame_in = <<>>
    /\ frame_out = <<>>
    /\ warning_display = <<>>

InitCalls ==
    /\ updated_ids = {}
    /\ iou_call = <<>>
    /\ nms_call = <<>>
    /\ db_call = [n |-> 0, op |-> "none", snapshot |-> <<>>, t |-> 0, ok |-> TRUE]

InitSpeed ==
    /\ speed_analyzer = NewAnalyzer(PIXELS_PER_METER)
    /\ nupdates = 0
    /\ sa_call = <<>>

\* MainApp.__init__ and DatabaseUtils.__init__
InitApp ==
    /\ app = [processing |-> FALSE, timer_active |-> FALSE, capture |-> "none",
              videowriter |-> "none", using_camera |-> FALSE, video_ok |-> FALSE,
              start_btn |-> TRUE, stop_btn |-> FALSE, frame_count |-> 0,
              current_vehicles |-> 0, closed |-> FALSE]
    /\ db = [latest_data |-> <<>>, last_write_time |-> 0, rows |-> <<>>, closed |-> FALSE]
    /\ last_op = "init"

Init == InitTracking /\ InitVoice /\ InitObs /\ InitSpeed /\ InitApp /\ InitCalls

----------------------------------------------------------------------------
(* One call of process_frame, dt milliseconds after the previous one *)

\* variant: play_voice_alert() called inside the frame instead of in a thread
StartVoiceThreads_Inline(threads, fired) == threads \o [k \in 1..Len(fired) |-> "done"]

\* voice_thread = threading.Thread(target=play_voice_alert); voice_thread.start()
StartVoiceThreads(threads, fired) == threads \o [k \in 1..Len(fired) |-> "start"]

LastN(seq, n) == IF Len(seq) > n THEN SubSeq(seq, Len(seq) - n + 1, Len(seq)) ELSE seq

Observe(r, t) ==
    LET o(id) == IF id \in DOMAIN r.obs THEN r.obs[id] ELSE NoObs
    IN  /\ last' = [id \in TrackIds |-> o(id)]
        /\ win' = [id \in TrackIds |->
                     IF o(id).seen
                     THEN LastN(Append(win[id], <<o(id).cz, o(id).dp, o(id).de>>), 3)
                     ELSE <<>>]
        /\ alert_count' = [id \in TrackIds |-> alert_count[id] + o(id).alert]
        /\ passed_by' = [id \in TrackIds |-> passed_by[id] + o(id).dp]
        /\ exited_by' = [id \in TrackIds |-> exited_by[id] + o(id).de]
        /\ classes_seen' = [id \in TrackIds |->
               IF o(id).seen THEN classes_seen[id] \cup {o(id).cls} ELSE classes_seen[id]]
        /\ in_since' = [id \in TrackIds |->
                          IF ~o(id).seen THEN in_since[id]
                          ELSE IF o(id).az < 0 THEN -1
                          ELSE IF in_since[id] = -1 THEN t ELSE in_since[id]]
        /\ rearmed' = [id \in TrackIds |->
                         rearmed[id] \/ (o(id).cleared /\ id \in r.wi)]
        /\ locked_frames' = IF engine_lock # 0 THEN locked_frames + 1 ELSE locked_frames
        /\ appended' = [id \in TrackIds |->
                          IF o(id).seen
                          THEN Append(appended[id], <<o(id).box[1], o(id).box[2]>>)
                          ELSE appended[id]]
        /\ frame_out' = r.out
        \* for warning in current_warnings: warning_display.append(...)
        /\ warning_display' = warning_display \o r.warnings

\* the call process_frame(...) and the assignment of its results
RunProcessFrame(dets, dt) ==
    /\ frame_in' = dets
    /\ \E order \in ArgsortDesc(Scores(AreaFilter(dets))) :
         LET t == now + dt
             r == FrameResult(FrameStart(track_history, entered_ids, entry_time,
                                         warned_ids, count_passed, count_exited),
                              dets, order, t)
         IN  /\ track_history' = r.th
             /\ entered_ids' = r.ei
             /\ entry_time' = r.et
             /\ warned_ids' = r.wi
             /\ count_passed' = r.cp
             /\ count_exited' = r.ce
             /\ now' = t
             /\ nframes' = nframes + 1
             \* threading.Thread(target=play_voice_alert).start(), once per fired id
             /\ voice_threads' = StartVoiceThreads(voice_threads, r.fired)
             /\ UNCHANGED engine_lock
             /\ Observe(r, t)

\* the calls a run makes, capped at MaxFrames
CallProcessFrame(dets, dt) == nframes < MaxFrames /\ RunProcessFrame(dets, dt)

ProcessFrame(dets, dt) ==
    CallProcessFrame(dets, dt) /\ UNCHANGED <<speedVars, appVars, callVars>>

----------------------------------------------------------------------------
(* Inputs of the zone specification *)

DetsOf(id, boxes, scores) ==
    {[box |-> b, id |-> id, cls |-> c, score |-> sc] : b \in boxes, c \in Classes, sc \in scores}

\* frames of one track: no detection, or one detection of track 1
ZoneFrames == {<<>>} \cup {<<d>> : d \in DetsOf(1, {BoxC, BoxA, BoxN}, {90})}

Frame == \E dets \in ZoneFrames, dt \in Steps : ProcessFrame(dets, dt)

Next == Frame

\* process_frame called frame after frame; the playback threads it starts
\* touch none of the tracking state and are not scheduled here
Spec == Init /\ [][Next]_vars

----------------------------------------------------------------------------
(* Claims about process_frame, checked under Spec *)

RECURSIVE SumOver(_, _)
SumOver(f, S) == IF S = {} THEN 0
                 ELSE LET x == CHOOSE y \in S : TRUE IN f[x] + SumOver(f, S \ {x})

FrameStep == nframes' # nframes

\* C1: a track whose point on three successive processed frames is outside,
\* inside, outside the count polygon is counted once as passed and once as
\* exited over these frames, and count_passed - count_exited is never negative.
C1_OutInOutCountedOnce ==
    /\ count_passed - count_exited >= 0
    /\ \A id \in TrackIds :
         (Len(win[id]) = 3 /\ win[id][1][1] < 0 /\ win[id][2][1] > 0 /\ win[id][3][1] < 0)
         => /\ win[id][1][2] + win[id][2][2] + win[id][3][2] = 1
            /\ win[id][1][3] + win[id][2][3] + win[id][3][3] = 1

\* C2: the alert event of a track id (warning frame saved, voice thread started)
\* is emitted at most once; an id in warned_ids never fires again, even after
\* its timer was cleared and it dwelt in the alert zone again.
C2_AlertAtMostOnce ==
    /\ \A id \in TrackIds : alert_count[id] = IF id \in warned_ids THEN 1 ELSE 0
    /\ Len(voice_threads) = Cardinality(warned_ids)

\* C2 witness: after its alert and a cleared timer the track dwelt for more than
\* 2 s again, and no second event was emitted.
C2_Witness ==
    \E id \in TrackIds :
        /\ rearmed[id] /\ last[id].overdue /\ last[id].alert = 0
        /\ alert_count[id] = 1 /\ id \in warned_ids

\* C3: for an alert-eligible track in the alert polygon that has not alerted yet,
\* the first in-zone frame only records the entry time and emits nothing; on a
\* later in-zone frame the alert event is emitted exactly when
\* now - entry_time > 2.0 s.
C3_AlertOnDwellOver2s ==
    [][FrameStep =>
        \A id \in TrackIds :
            (last'[id].seen /\ last'[id].az >= 0 /\ last'[id].cls \in ALERT_OBJ_LIST
             /\ id \notin warned_ids)
            => IF id \notin DOMAIN entry_time
               THEN /\ id \in DOMAIN entry_time' /\ entry_time'[id] = now'
                    /\ alert_count'[id] = alert_count[id]
                    /\ id \notin warned_ids'
                    /\ Len(voice_threads') = Len(voice_threads)
               ELSE /\ entry_time'[id] = entry_time[id]
                    /\ (alert_count'[id] = alert_count[id] + 1) <=> (now' - entry_time[id] > 2000)
                    /\ (id \in warned_ids') <=> (now' - entry_time[id] > 2000)
                    /\ (Len(voice_threads') = Len(voice_threads) + 1)
                           <=> (now' - entry_time[id] > 2000)]_vars

\* C3 witness: sampled every 2.1 s, a track continuously inside for 2.1 s has
\* fired exactly one alert event, on its second in-zone frame.
C3_Witness ==
    \E id \in TrackIds :
        /\ last[id].alert = 1 /\ alert_count[id] = 1
        /\ in_since[id] = entry_time[id] /\ now - entry_time[id] = 2100
        /\ Len(track_history[id]) = 2

\* C4: a track whose class is alert-ineligible on every frame never causes an
\* alert event and never holds an entry_time record.
C4_IneligibleNeverAlerts ==
    \A id \in TrackIds :
        classes_seen[id] \cap ALERT_OBJ_LIST = {}
        => alert_count[id] = 0 /\ id \notin DOMAIN entry_time /\ id \notin warned_ids

\* C4 witness: an always-ineligible track stayed in the alert polygon for more
\* than 2 s.
C4_Witness ==
    \E id \in TrackIds :
        /\ classes_seen[id] \cap ALERT_OBJ_LIST = {} /\ last[id].seen /\ last[id].az >= 0
        /\ in_since[id] >= 0 /\ now - in_since[id] > 2000

\* C5: an alert event is emitted for a track only after its point was inside the
\* alert polygon on every frame it was processed in during more than 2.0 s; a
\* frame outside the alert polygon restarts the dwell measurement.
C5_DwellIsContinuous ==
    \A id \in TrackIds :
        last[id].alert = 1 => in_since[id] >= 0 /\ now - in_since[id] > 2000

\* C9: the counters never decrease; a frame on which a track's count-zone
\* membership does not change (inside while entered, outside while not entered)
\* changes neither counter because of that track; a track is never counted as
\* exited more often than as entered.
C9_CountersChangeOnTransitionOnly ==
    [][FrameStep =>
        /\ count_passed' >= count_passed /\ count_exited' >= count_exited
        /\ count_passed' - count_passed = SumOver([id \in TrackIds |-> last'[id].dp], TrackIds)
        /\ count_exited' - count_exited = SumOver([id \in TrackIds |-> last'[id].de], TrackIds)
        /\ \A id \in TrackIds :
             /\ (last'[id].seen /\ (\/ id \in entered_ids /\ last'[id].cz >= 0
                                    \/ id \notin entered_ids /\ last'[id].cz < 0))
                => last'[id].dp = 0 /\ last'[id].de = 0
             /\ exited_by'[id] <= passed_by'[id]
             /\ (passed_by'[id] = 0 => exited_by'[id] = 0)]_vars

\* C9 witness: a track stayed inside the count polygon for three frames and was
\* counted once.
C9_Witness ==
    \E id \in TrackIds :
        /\ Len(win[id]) = 3 /\ \A k \in 1..3 : win[id][k][1] > 0
        /\ id \in entered_ids /\ passed_by[id] = 1 /\ count_passed = 1 /\ count_exited = 0

----------------------------------------------------------------------------
(* voice_alert.py: play_voice_alert, run by each started thread.           *)
(* Thread positions: "start" before the with statement, "locked" inside it *)
(* before engine.say, "said" before engine.runAndWait, "done" after the    *)
(* with statement, "failed" when a speech-engine call raised.              *)

\* variant: the with statement entered without waiting for the lock
LockFree_Ignored(lock) == TRUE

\* engine_lock.acquire() returns only when the lock is free
LockFree(lock) == lock = 0

SetThread(i, pc) == voice_threads' = [voice_threads EXCEPT ![i] = pc]

\* with engine_lock:
Acquire(i) ==
    /\ voice_threads[i] = "start"
    /\ LockFree(engine_lock)
    /\ engine_lock' = i
    /\ SetThread(i, "locked")
    /\ UNCHANGED <<trackVars, obsVars, speedVars, appVars, callVars>>

\* engine.say(...)
Say(i) ==
    /\ voice_threads[i] = "locked"
    /\ SetThread(i, "said")
    /\ UNCHANGED <<engine_lock, trackVars, obsVars, speedVars, appVars, callVars>>

\* variant: the playback ends without releasing the lock
RunAndWait_KeepsLock(i) ==
    /\ voice_threads[i] = "said"
    /\ SetThread(i, "done")
    /\ UNCHANGED <<engine_lock, trackVars, obsVars, speedVars, appVars, callVars>>

\* engine.runAndWait() returns; the with statement releases the lock
RunAndWait(i) ==
    /\ voice_threads[i] = "said"
    /\ SetThread(i, "done")
    /\ engine_lock' = 0
    /\ UNCHANGED <<trackVars, obsVars, speedVars, appVars, callVars>>

\* engine.say or engine.runAndWait raises; the with statement releases the lock
Raise(i) ==
    /\ voice_threads[i] \in {"locked", "said"}
    /\ SetThread(i, "failed")
    /\ engine_lock' = 0
    /\ UNCHANGED <<trackVars, obsVars, speedVars, appVars, callVars>>

Threads == 1..Len(voice_threads)

\* frames of two alert-eligible tracks inside the alert polygon
VoiceFrames ==
    LET d1 == [box |-> BoxA, id |-> 1, cls |-> 0, score |-> 90]
        d2 == [box |-> BoxA2, id |-> 2, cls |-> 0, score |-> 80]
    IN  {<<>>, <<d1>>, <<d2>>, <<d1, d2>>}

VoiceFrame == \E dets \in VoiceFrames : ProcessFrame(dets, 2100)

ThreadAcquire == \E i \in Threads : Acquire(i)

ThreadSay == \E i \in Threads : Say(i)

ThreadRunAndWait == \E i \in Threads : RunAndWait(i)

ThreadRaise == \E i \in Threads : Raise(i)

NextVoice == VoiceFrame \/ ThreadAcquire \/ ThreadSay \/ ThreadRunAndWait \/ ThreadRaise

\* process_frame together with the playback threads it starts
SpecVoice == Init /\ [][NextVoice]_vars

----------------------------------------------------------------------------
(* Claims about the playback threads, checked under SpecVoice *)

InEngine(i) == voice_threads[i] \in {"locked", "said"}

\* C7: playback is serialized: at most one thread is inside the speech-engine
\* calls at any time, and the lock is released when a playback finishes or raises.
C7_PlaybackSerialized ==
    /\ Cardinality({i \in Threads : InEngine(i)}) <= 1
    /\ \A i \in Threads : InEngine(i) <=> engine_lock = i
    /\ engine_lock # 0 => engine_lock \in Threads

\* C7 witness: one playback raised and released the lock, and a second thread is
\* inside the engine holding it.
C7_Witness ==
    \E i, j \in Threads :
        /\ i # j /\ voice_threads[i] = "failed" /\ voice_threads[j] = "said"
        /\ engine_lock = j

\* C8: emitting an alert never blocks frame processing: process_frame is enabled
\* whatever the state of the lock, starts the playback in a thread that has not
\* run yet, and changes neither the lock nor any running thread.
C8_FrameNeverBlocks ==
    /\ [](nframes < MaxFrames => ENABLED VoiceFrame)
    /\ [][FrameStep =>
            /\ engine_lock' = engine_lock
            /\ Len(voice_threads') >= Len(voice_threads)
            /\ \A i \in 1..Len(voice_threads') :
                 voice_threads'[i] = IF i <= Len(voice_threads) THEN voice_threads[i]
                                     ELSE "start"]_vars

\* C8 witness: two frames completed while an earlier playback held the lock, the
\* second of them emitting an alert of its own.
C8_Witness ==
    /\ locked_frames >= 2 /\ engine_lock # 0
    /\ \E id \in TrackIds : last[id].alert = 1

----------------------------------------------------------------------------
(* SpeedAnalyzer.update called on its own *)

SpeedPositions == {<<0, 0>>, <<50, 0>>, <<300, 0>>}

\* time of the first sighting, and the steps from a track's previous time
SpeedDeltas == {1, 720, 900, 1000}

RunUpdate(track_id, center, timestamp) ==
    /\ speed_analyzer' = SpeedUpdate(speed_analyzer, track_id, center, timestamp)
    /\ nupdates' = nupdates + 1
    /\ sa_call' = [id |-> track_id, center |-> center, timestamp |-> timestamp]
    /\ updated_ids' = updated_ids \cup {track_id}
    /\ UNCHANGED <<trackVars, voiceVars, obsVars, appVars, iou_call, nms_call, db_call>>

\* the calls a run makes, capped at MaxUpdates
Update(track_id, center, timestamp) ==
    nupdates < MaxUpdates /\ RunUpdate(track_id, center, timestamp)

UpdateAny ==
    \E center \in SpeedPositions, d \in SpeedDeltas :
        Update(1, center,
               IF 1 \in DOMAIN speed_analyzer.tracks
               THEN speed_analyzer.tracks[1].prev_time + d ELSE d)

NextSpeed == UpdateAny

SpecSpeed == Init /\ [][NextSpeed]_vars

----------------------------------------------------------------------------
(* Claims about SpeedAnalyzer.update, checked under SpecSpeed *)

\* the instantaneous speed of the call, in km/h, is <= 0 or >= 200
CallOutOfRange(tr, call) ==
    LET dist == Norm(call.center, tr.prev_pos)
        dt   == call.timestamp - tr.prev_time
    IN  dist = 0 \/ dist * 3600 >= 200 * 5 * dt

\* C10: an update with dt > 0.001 s whose instantaneous speed is outside (0, 200)
\* km/h leaves the speed buffer, the write cursor and the smoothed speed
\* unchanged and sets the previous position and time to the current values.
C10_OutOfRangeSampleDiscarded ==
    [][(nupdates' # nupdates
        /\ sa_call'.id \in DOMAIN speed_analyzer.tracks
        /\ sa_call'.timestamp - speed_analyzer.tracks[sa_call'.id].prev_time > 1
        /\ CallOutOfRange(speed_analyzer.tracks[sa_call'.id], sa_call'))
       => LET id  == sa_call'.id
              old == speed_analyzer.tracks[id]
              new == speed_analyzer'.tracks[id]
          IN  /\ new.speeds = old.speeds
              /\ new.speed_index = old.speed_index
              /\ speed_analyzer'.speeds = speed_analyzer.speeds
              /\ new.prev_pos = sa_call'.center
              /\ new.prev_time = sa_call'.timestamp]_vars

\* C10 witness: after an accepted sample of 36 km/h, an update 250 px and 0.72 s
\* later (250 km/h) was discarded and advanced the baseline.
C10_Witness ==
    /\ sa_call # <<>>
    /\ 1 \in DOMAIN speed_analyzer.speeds
    /\ speed_analyzer.speeds[1] = <<36, 1>>
    /\ speed_analyzer.tracks[1].speeds[1] = <<36, 1>>
    /\ speed_analyzer.tracks[1].speed_index = 1
    /\ speed_analyzer.tracks[1].speeds[2] = RatZero
    /\ speed_analyzer.tracks[1].positions = << <<0, 0>>, <<50, 0>>, <<300, 0>> >>
    /\ sa_call.timestamp = 2720
    /\ speed_analyzer.tracks[1].prev_time = 2720
    /\ speed_analyzer.tracks[1].prev_pos = <<300, 0>>

\* the speed buffer of a track before its first accepted sample
EmptyWindow == [k \in 1..SPEED_WINDOW |-> RatZero]

\* C11: the first update for a track id records no speed; a second update at
\* (50,0), 1.0 s after the first at (0,0), with pixels_per_meter = 5, stores the
\* instantaneous speed 36 km/h, and the smoothed speed of the track after this
\* single accepted sample is 36 km/h.
C11_FiftyPixelsPerSecondIs36Kmh ==
    [][nupdates' # nupdates
       => LET id == sa_call'.id
          IN  IF id \notin DOMAIN speed_analyzer.tracks
              THEN /\ id \notin DOMAIN speed_analyzer'.speeds
                   /\ speed_analyzer'.tracks[id].speeds = EmptyWindow
              ELSE LET old == speed_analyzer.tracks[id]
                   IN  (/\ speed_analyzer.ppm = 5
                        /\ old.speeds = EmptyWindow
                        /\ old.prev_pos = <<0, 0>>
                        /\ sa_call'.center = <<50, 0>>
                        /\ sa_call'.timestamp - old.prev_time = 1000)
                       => /\ speed_analyzer'.tracks[id].speeds
                               = [EmptyWindow EXCEPT ![1] = <<36, 1>>]
                          /\ speed_analyzer'.speeds[id] = <<36, 1>>]_vars

\* C11 witness: exactly two updates were made, at (0,0) and 1.0 s later at
\* (50,0), and the track's smoothed speed is 36 km/h.
C11_Witness ==
    /\ nupdates = 2
    /\ speed_analyzer.tracks[1].positions = << <<0, 0>>, <<50, 0>> >>
    /\ sa_call.timestamp = 1001
    /\ speed_analyzer.tracks[1].speeds = [EmptyWindow EXCEPT ![1] = <<36, 1>>]
    /\ speed_analyzer.speeds = Put(EmptyMap, 1, <<36, 1>>)

----------------------------------------------------------------------------
(* database_utils.py: DatabaseUtils, as a record                           *)
(*   [latest_data, last_write_time, rows, closed];                         *)
(* rows is the content of traffic_statistics, ok tells whether the INSERT  *)
(* and commit of the call succeed.                                         *)

\* write_latest_data
DbWriteLatestData(d, t, ok) ==
    IF d.latest_data = <<>> THEN d
    ELSE IF ok /\ ~d.closed
         THEN [d EXCEPT !.rows = Append(@, d.latest_data), !.last_write_time = t]
         ELSE d

\* variant: every call of check_and_write writes
WriteDue_Always(t, last_write_time) == TRUE

\* check_and_write: current_time - self.last_write_time >= self.write_interval
WriteDue(t, last_write_time) == t - last_write_time >= WRITE_INTERVAL_MS

\* insert_statistics, with check_and_write
DbInsertStatistics(d, snapshot, t, ok) ==
    LET d1 == [d EXCEPT !.latest_data = snapshot]
    IN  IF WriteDue(t, d1.last_write_time) THEN DbWriteLatestData(d1, t, ok)
        ELSE d1

\* the record of a call on the DatabaseUtils instance
DbCall(op, snapshot, t, ok) ==
    [n |-> db_call.n + 1, op |-> op, snapshot |-> snapshot, t |-> t, ok |-> ok]

\* close
DbClose(d, t, ok) ==
    [(IF d.latest_data # <<>> THEN DbWriteLatestData(d, t, ok) ELSE d) EXCEPT !.closed = TRUE]

----------------------------------------------------------------------------
(* SpeedAnalyzer read-outs and the update loop of update_frame *)

RECURSIVE RatSumOver(_, _)
RatSumOver(f, S) ==
    IF S = {} THEN RatZero
    ELSE LET x == CHOOSE y \in S : TRUE IN RatAdd(f[x], RatSumOver(f, S \ {x}))

\* variant: the sum of the speeds divided by the number of tracked vehicles
calculate_average_speed_OverAllTracked(sa) ==
    LET valid == {id \in DOMAIN sa.speeds : RatLess(RatZero, sa.speeds[id])}
    IN  IF valid = {} THEN RatZero
        ELSE LET t == RatSumOver(sa.speeds, valid) IN Rat(t[1], t[2] * Cardinality(sa.all))

\* calculate_average_speed
calculate_average_speed(sa) ==
    LET valid == {id \in DOMAIN sa.speeds : RatLess(RatZero, sa.speeds[id])}
    IN  IF valid = {} THEN RatZero
        ELSE LET t == RatSumOver(sa.speeds, valid) IN Rat(t[1], t[2] * Cardinality(valid))

\* variant: only the ids that have a smoothed speed are counted
get_vehicle_count_WithSpeed(sa) == Cardinality(DOMAIN sa.speeds)

\* get_vehicle_count: len(self.all_tracked_vehicles)
get_vehicle_count(sa) == Cardinality(sa.all)

\* variant: a track is passed to the analyzer from its second point on
TrackUpdated_FromSecondPoint(track) == Len(track) > 1

\* if track:
TrackUpdated(track) == Len(track) > 0

RECURSIVE UpdateTracks(_, _, _, _)
\* for track_id, track in self.track_history.items(): if track: update(id, track[-1], ts)
UpdateTracks(sa, th, ids, timestamp) ==
    IF ids = {} THEN sa
    ELSE LET id  == CHOOSE y \in ids : \A z \in ids : y <= z
             sa1 == IF TrackUpdated(th[id])
                    THEN SpeedUpdate(sa, id, th[id][Len(th[id])], timestamp)
                    ELSE sa
         IN  UpdateTracks(sa1, th, ids \ {id}, timestamp)

----------------------------------------------------------------------------
(* MainApp: the handlers of the window *)

\* stop_current_process
StopCurrentProcess(a) ==
    IF ~a.processing THEN a
    ELSE [a EXCEPT !.timer_active = FALSE,
                   !.capture = IF @ = "open" THEN "released" ELSE @,
                   !.videowriter = IF @ # "none" THEN "released" ELSE @,
                   !.start_btn = TRUE,
                   !.stop_btn = FALSE,
                   !.processing = FALSE]

\* stop_processing
StopProcessingOf(a) ==
    StopCurrentProcess([a EXCEPT !.processing = FALSE, !.start_btn = TRUE, !.stop_btn = FALSE])

\* setup_video; opened tells whether the new capture could be opened
SetupVideo(a, opened) ==
    LET a1 == [a EXCEPT !.capture = IF @ = "open" THEN "released" ELSE @]
    IN  IF ~opened THEN StopProcessingOf([a1 EXCEPT !.capture = "closed"])
        ELSE [a1 EXCEPT !.capture = "open",
                        !.videowriter = IF a.using_camera THEN "none" ELSE "open",
                        !.timer_active = TRUE]

\* select_video_file, with a file chosen in the dialog
SelectVideoFile ==
    /\ ~app.closed
    /\ app' = [app EXCEPT !.video_ok = TRUE, !.using_camera = FALSE]
    /\ last_op' = "select_video_file"
    /\ UNCHANGED <<db, trackVars, voiceVars, obsVars, speedVars, callVars>>

\* use_camera
UseCamera ==
    /\ ~app.closed
    /\ app' = [app EXCEPT !.video_ok = FALSE, !.using_camera = TRUE]
    /\ last_op' = "use_camera"
    /\ UNCHANGED <<db, trackVars, voiceVars, obsVars, speedVars, callVars>>

\* start_processing, on a click of the enabled start button
StartProcessing ==
    /\ ~app.closed /\ app.start_btn
    /\ last_op' = "start_processing"
    /\ IF app.using_camera \/ app.video_ok
       THEN \E opened \in BOOLEAN :
              /\ app' = SetupVideo([app EXCEPT !.processing = TRUE, !.start_btn = FALSE,
                                               !.stop_btn = TRUE, !.frame_count = 0,
                                               !.videowriter = "none"], opened)
              /\ speed_analyzer' = NewAnalyzer(PIXELS_PER_METER)
              /\ track_history' = EmptyMap
              /\ entered_ids' = {}
              /\ entry_time' = EmptyMap
              /\ warned_ids' = {}
              /\ count_passed' = 0
              /\ count_exited' = 0
              /\ updated_ids' = {}
              /\ UNCHANGED <<now, nframes, nupdates, sa_call, db, voiceVars, obsVars, iou_call, nms_call,
                             db_call>>
       ELSE UNCHANGED <<app, db, trackVars, voiceVars, obsVars, speedVars, callVars>>

\* stop_processing, on a click of the enabled stop button
StopProcessing ==
    /\ ~app.closed /\ app.stop_btn
    /\ app' = StopProcessingOf(app)
    /\ last_op' = "stop_processing"
    /\ UNCHANGED <<db, trackVars, voiceVars, obsVars, speedVars, callVars>>

AppFrames ==
    {<<>>} \cup {<<[box |-> b, id |-> 1, cls |-> 0, score |-> 90]>> : b \in {BoxC, BoxC2}}

Snapshot(sa, a, t) ==
    [timestamp |-> t, avg_speed |-> calculate_average_speed(sa),
     total_vehicles |-> get_vehicle_count(sa),
     current_vehicles |-> a.current_vehicles, frame_count |-> a.frame_count]

\* update_frame, on a timeout of the running timer
UpdateFrame ==
    /\ ~app.closed /\ app.timer_active
    /\ last_op' = "update_frame"
    /\ IF ~app.processing
       THEN UNCHANGED <<app, db, trackVars, voiceVars, obsVars, speedVars, callVars>>
       ELSE \/ \* capture.read() fails
               /\ app' = IF app.using_camera THEN app ELSE StopCurrentProcess(app)
               /\ UNCHANGED <<db, trackVars, voiceVars, obsVars, speedVars, callVars>>
            \/ \* capture.read() succeeds
               \E dets \in AppFrames, ok \in BOOLEAN :
                 /\ CallProcessFrame(dets, 1000)
                 /\ speed_analyzer' = UpdateTracks(speed_analyzer, track_history',
                                                   DOMAIN track_history', now')
                 /\ LET a1 == [app EXCEPT !.current_vehicles = count_passed' - count_exited',
                                          !.frame_count = @ + 1]
                    IN  /\ app' = a1
                        /\ db' = IF a1.frame_count % STATUS_EVERY = 0
                                 THEN DbInsertStatistics(db, Snapshot(speed_analyzer', a1, now'),
                                                         now', ok)
                                 ELSE db
                        /\ db_call' = IF a1.frame_count % STATUS_EVERY = 0
                                      THEN DbCall("insert", Snapshot(speed_analyzer', a1, now'),
                                                  now', ok)
                                      ELSE db_call
                 /\ updated_ids' = updated_ids \cup
                        {id \in DOMAIN track_history' : Len(track_history'[id]) > 0}
                 /\ UNCHANGED <<nupdates, sa_call, iou_call, nms_call>>

\* closeEvent
CloseEvent ==
    /\ ~app.closed
    /\ \E ok \in BOOLEAN :
         /\ app' = [StopCurrentProcess(app) EXCEPT !.closed = TRUE]
         /\ db' = DbClose(db, now, ok)
         /\ db_call' = DbCall("close", <<>>, now, ok)
    /\ last_op' = "closeEvent"
    /\ UNCHANGED <<trackVars, voiceVars, obsVars, speedVars, updated_ids, iou_call, nms_call>>

NextApp ==
    \/ SelectVideoFile
    \/ UseCamera
    \/ StartProcessing
    \/ StopProcessing
    \/ UpdateFrame
    \/ CloseEvent

SpecApp == Init /\ [][NextApp]_vars

----------------------------------------------------------------------------
(* Claims about MainApp, checked under SpecApp *)

\* C6: after a click on stop while processing is active the resources are
\* released: the frame timer is stopped, the capture and the video writer are
\* released, and processing is false.
C6_StopReleasesResources ==
    last_op = "stop_processing"
    => /\ ~app.processing
       /\ ~app.timer_active
       /\ app.capture # "open"
       /\ app.videowriter # "open"

----------------------------------------------------------------------------
(* SpeedAnalyzer.update called for several track ids on one clock *)

CountIds == {1, 2}

CountPositions == {<<0, 0>>, <<50, 0>>}

\* clock steps between successive update calls
CountDeltas == {1, 1000}

UpdateCounted ==
    \E id \in CountIds, center \in CountPositions, d \in CountDeltas :
        Update(id, center, (IF sa_call = <<>> THEN 0 ELSE sa_call.timestamp) + d)

NextCount == UpdateCounted

SpecCount == Init /\ [][NextCount]_vars

\* C12: get_vehicle_count is the number of distinct track ids passed to update
\* on the instance so far, whatever each call did (first sighting, dt guard,
\* speed accepted or discarded), and no update decreases it.
C12_VehicleCountIsDistinctIds ==
    /\ [](get_vehicle_count(speed_analyzer) = Cardinality(updated_ids))
    /\ [][get_vehicle_count(speed_analyzer') >= get_vehicle_count(speed_analyzer)]_vars

\* C12 witness: four updates for two ids, id 1 passed three times with one call
\* stopped by the dt guard and one accepted speed; the count is 2.
C12_Witness ==
    /\ nupdates = 4
    /\ updated_ids = {1, 2}
    /\ get_vehicle_count(speed_analyzer) = 2
    /\ Len(speed_analyzer.tracks[1].positions) = 3
    /\ speed_analyzer.tracks[1].prev_time < speed_analyzer.tracks[1].last_seen
    /\ 1 \in DOMAIN speed_analyzer.speeds
    /\ 2 \notin DOMAIN speed_analyzer.speeds

----------------------------------------------------------------------------
(* process_frame on a long stream of one track: the track stays at BoxN,   *)
(* except on at most MaxJumps frames where it is at BoxC.                  *)

\* number of frames of the stream on which track 1 was at BoxC
Jumps == Cardinality({k \in 1..Len(appended[1]) : appended[1][k] = <<BoxC[1], BoxC[2]>>})

HistoryFrame ==
    \E b \in {BoxN, BoxC} :
        /\ nframes < MaxAppends
        /\ b = BoxC => Jumps < MaxJumps
        /\ RunProcessFrame(<<[box |-> b, id |-> 1, cls |-> 1, score |-> 90]>>, 1000)
        /\ UNCHANGED <<speedVars, appVars, callVars>>

NextHistory == HistoryFrame

SpecHistory == Init /\ [][NextHistory]_vars

\* C13: after n appends for a track id its history holds exactly the last
\* min(n, 30) appended points in arrival order, newest last; so never more
\* than 30 points.
C13_HistoryIsLast30Appended ==
    \A id \in TrackIds :
        LET n == Len(appended[id])
        IN  IF n = 0 THEN id \notin DOMAIN track_history
            ELSE /\ id \in DOMAIN track_history
                 /\ Len(track_history[id]) <= 30
                 /\ track_history[id]
                      = SubSeq(appended[id], (IF n > 30 THEN n - 30 ELSE 0) + 1, n)

\* C13 witness: 32 points were appended, the first and the last at BoxC; the
\* history holds 30 points, the first one evicted and the last one newest.
C13_Witness ==
    /\ Len(appended[1]) = 32
    /\ appended[1][1] = <<BoxC[1], BoxC[2]>>
    /\ appended[1][32] = <<BoxC[1], BoxC[2]>>
    /\ Len(track_history[1]) = 30
    /\ track_history[1][1] = <<BoxN[1], BoxN[2]>>
    /\ track_history[1][30] = <<BoxC[1], BoxC[2]>>

----------------------------------------------------------------------------
(* process_frame on frames of up to two detections that exercise the       *)
(* suppression pipeline: oversized, too wide, too thin, overlapping boxes   *)

SuppressBoxes == {BoxBig, BoxWide, BoxThin, BoxD, BoxD2, BoxS}

\* confidences of the two detections of a frame: distinct, or tied
SuppressScores == {<<90, 80>>, <<90, 90>>}

SuppressFrames ==
    {<<>>}
    \cup {<<[box |-> b, id |-> 1, cls |-> 0, score |-> 90]>> : b \in SuppressBoxes}
    \cup {<<[box |-> b1, id |-> 1, cls |-> 0, score |-> sc[1]],
            [box |-> b2, id |-> 2, cls |-> 0, score |-> sc[2]]>> :
               b1 \in SuppressBoxes, b2 \in SuppressBoxes, sc \in SuppressScores}

SuppressFrame ==
    \E dets \in SuppressFrames :
        /\ nframes < MaxSuppressFrames
        /\ RunProcessFrame(dets, 1000)
        /\ UNCHANGED <<speedVars, appVars, callVars>>

NextSuppress == SuppressFrame

SpecSuppress == Init /\ [][NextSuppress]_vars

SetOf(seq) == {seq[k] : k \in 1..Len(seq)}

\* no detection of dets is left by the pipeline, whatever order the sort gives
NoneSurvives(dets) ==
    \A order \in ArgsortDesc(Scores(AreaFilter(dets))) :
        Suppress(AreaFilter(dets), order) = <<>>

\* C14: a process_frame call whose frame yields no detections (none given, or
\* all removed by the suppression filters) leaves count_passed, count_exited,
\* entered_ids, entry_time, warned_ids and track_history unchanged and emits no
\* alert event.
C14_EmptyFrameChangesNothing ==
    [][(FrameStep /\ NoneSurvives(frame_in'))
       => /\ UNCHANGED <<count_passed, count_exited, entered_ids, entry_time,
                         warned_ids, track_history>>
          /\ alert_count' = alert_count
          /\ voice_threads' = voice_threads]_vars

\* C14 witness: after a frame that tracked id 1, a frame of two detections was
\* processed of which none was left (the wide box suppressed BoxD and was then
\* removed for its aspect ratio); the tracking state is that of the first frame.
C14_Witness ==
    /\ nframes = 2
    /\ Len(frame_in) = 2 /\ frame_in[1].box = BoxWide /\ frame_in[2].box = BoxD
    /\ frame_out = <<>>
    /\ count_passed = 1
    /\ DOMAIN track_history = {1} /\ Len(track_history[1]) = 1

\* C15: no detection that the tracking loop runs over has a box whose area
\* exceeds frame_area / 5 or whose width/height ratio is outside (0.2, 5.0).
C15_OutputWithinAreaAndAspect ==
    \A k \in 1..Len(frame_out) :
        LET w == frame_out[k].box[3]
            h == frame_out[k].box[4]
        IN  /\ 5 * (w * h) <= 1920 * 1080
            /\ h < 5 * w
            /\ w < 5 * h

\* C15 witness: of an oversized box and a normal box, the normal one is output.
C15_Witness ==
    /\ Len(frame_in) = 2
    /\ frame_in[1].box = BoxBig
    /\ frame_in[2].box = BoxS
    /\ frame_out = <<frame_in[2]>>

\* C16: running the suppression pipeline on its own output, with the same frame
\* area and threshold, returns the same set of detections.
C16_SuppressionIdempotent ==
    \A order \in ArgsortDesc(Scores(AreaFilter(frame_out))) :
        SetOf(Suppress(AreaFilter(frame_out), order)) = SetOf(frame_out)

\* C16 witness: two overlapping boxes with tied scores were both kept (IoU
\* below the threshold), after a frame in which only track 1 was processed.
C16_Witness ==
    /\ nframes = 2
    /\ Len(frame_out) = 2
    /\ SetOf(Boxes(frame_out)) = {BoxD, BoxS}
    /\ frame_out[1].score = frame_out[2].score
    /\ Len(track_history[1]) = 2 /\ track_history[1][1] = <<BoxD2[1], BoxD2[2]>>
    /\ Len(track_history[2]) = 1

----------------------------------------------------------------------------
(* calculate_iou(box1, box2), boxes as <<x, y, w, h>> with w, h >= 0.  The  *)
(* result is an exact rational <<n, d>>, or "ZeroDivisionError" when the    *)
(* division is by zero.                                                     *)

\* max(0, x2_int - x1_int) * max(0, y2_int - y1_int)
IntersectionArea(box1, box2) ==
    LET x1_int == Max(box1[1], box2[1])
        y1_int == Max(box1[2], box2[2])
        x2_int == Min(box1[1] + box1[3], box2[1] + box2[3])
        y2_int == Min(box1[2] + box1[4], box2[2] + box2[4])
    IN  Max(0, x2_int - x1_int) * Max(0, y2_int - y1_int)

\* intersection_area / float(divisor)
FloatDiv(n, divisor) == IF divisor = 0 THEN "ZeroDivisionError" ELSE Rat(n, divisor)

\* variant: the intersection relative to box1 alone
calculate_iou_OverBox1(box1, box2) ==
    LET intersection_area == IntersectionArea(box1, box2)
        box1_area == box1[3] * box1[4]
        box2_area == box2[3] * box2[4]
    IN  IF box1_area + box2_area > 0
        THEN FloatDiv(intersection_area, box1_area)
        ELSE RatZero

\* variant: without the test that guards the division
calculate_iou_Unguarded(box1, box2) ==
    LET intersection_area == IntersectionArea(box1, box2)
        box1_area == box1[3] * box1[4]
        box2_area == box2[3] * box2[4]
    IN  FloatDiv(intersection_area, box1_area + box2_area - intersection_area)

calculate_iou(box1, box2) ==
    LET intersection_area == IntersectionArea(box1, box2)
        box1_area == box1[3] * box1[4]
        box2_area == box2[3] * box2[4]
    IN  IF box1_area + box2_area > 0
        THEN FloatDiv(intersection_area, box1_area + box2_area - intersection_area)
        ELSE RatZero

\* boxes with zero and positive sides that are disjoint, touching,
\* overlapping, nested and equal
IouXs == {0, 2}

IouYs == {0, 1}

IouWs == {0, 1, 3}

IouHs == {0, 2}

IouBoxes == {<<x, y, w, h>> : x \in IouXs, y \in IouYs, w \in IouWs, h \in IouHs}

CallIou(box1, box2) ==
    /\ iou_call' = [box1 |-> box1, box2 |-> box2, result |-> calculate_iou(box1, box2)]
    /\ UNCHANGED <<trackVars, voiceVars, obsVars, speedVars, appVars, updated_ids, nms_call,
                 db_call>>

Iou == \E box1 \in IouBoxes, box2 \in IouBoxes : CallIou(box1, box2)

NextIou == Iou

SpecIou == Init /\ [][NextIou]_vars

\* C17: calculate_iou(a, b) = calculate_iou(b, a) for all boxes a, b, and
\* calculate_iou(a, a) = 1 for a box a of positive width and height.
C17_IouSymmetricAndReflexive ==
    iou_call # <<>>
    => /\ iou_call.result = calculate_iou(iou_call.box2, iou_call.box1)
       /\ (iou_call.box1 = iou_call.box2 /\ iou_call.box1[3] * iou_call.box1[4] > 0)
            => iou_call.result = <<1, 1>>

\* C17 witness: two boxes of area 6 that share an area of 2 have IoU 1/5.
C17_Witness ==
    /\ iou_call # <<>>
    /\ iou_call.box1 = <<0, 0, 3, 2>>
    /\ iou_call.box2 = <<2, 0, 3, 2>>
    /\ iou_call.result = <<1, 5>>

\* C18: calculate_iou never fails: the division is never by zero (the union
\* area is positive whenever the two areas sum to a positive value), the
\* result is in [0, 1], and it is 0 whenever the union area is not positive.
C18_IouTotalAndInUnitRange ==
    iou_call # <<>>
    => LET a1    == iou_call.box1[3] * iou_call.box1[4]
           a2    == iou_call.box2[3] * iou_call.box2[4]
           union == a1 + a2 - IntersectionArea(iou_call.box1, iou_call.box2)
           r     == iou_call.result
       IN  /\ r # "ZeroDivisionError"
           /\ a1 + a2 > 0 => union > 0
           /\ r[2] > 0 /\ 0 <= r[1] /\ r[1] <= r[2]
           /\ union <= 0 => r = RatZero

\* C18 witness: two boxes of zero area (a zero width, a zero height) give 0.
C18_Witness ==
    /\ iou_call # <<>>
    /\ iou_call.box1 = <<0, 0, 0, 2>>
    /\ iou_call.box2 = <<2, 1, 3, 0>>
    /\ iou_call.result = RatZero

----------------------------------------------------------------------------
(* SpeedAnalyzer.update on a long stream of one track, one call per second *)

StreamUpdate ==
    \E center \in CountPositions :
        /\ nupdates < MaxStream
        /\ RunUpdate(1, center, (IF sa_call = <<>> THEN 0 ELSE sa_call.timestamp) + 1000)

NextStream == StreamUpdate

SpecStream == Init /\ [][NextStream]_vars

\* C19: per-track memory does not grow with the number of updates: a track's
\* history holds at most 30 points, and each per-track sequence of the speed
\* analyzer holds at most 5 entries, the length of the speed window.
C19_PerTrackMemoryBounded ==
    /\ \A id \in DOMAIN track_history : Len(track_history[id]) <= 30
    /\ \A id \in DOMAIN speed_analyzer.tracks :
          /\ Len(speed_analyzer.tracks[id].speeds) <= 5
          /\ Len(speed_analyzer.tracks[id].positions) <= 5

----------------------------------------------------------------------------
(* SpeedAnalyzer constructed with a given pixels_per_meter and then updated *)

ConfigPpms == {-5, 0, 5}

\* SpeedAnalyzer(pixels_per_meter = ppm)
Construct ==
    \E ppm \in ConfigPpms :
        /\ nupdates = 0
        /\ speed_analyzer' = NewAnalyzer(ppm)
        /\ updated_ids' = {}
        /\ UNCHANGED <<trackVars, voiceVars, obsVars, appVars, nupdates, sa_call, iou_call, nms_call,
                       db_call>>

ConfigUpdate ==
    \E center \in SpeedPositions :
        Update(1, center, (IF sa_call = <<>> THEN 0 ELSE sa_call.timestamp) + 1000)

NextConfig == Construct \/ ConfigUpdate

SpecConfig == Init /\ [][NextConfig]_vars

\* C20: configuration errors are rejected at construction: update is never
\* called on an analyzer whose pixels_per_meter is not positive, and
\* process_frame never tests a zone polygon of fewer than 3 points.
C20_ConfigRejectedAtConstruction ==
    /\ nupdates > 0 => speed_analyzer.ppm > 0
    /\ nframes > 0 => Len(polygon_points) >= 3 /\ Len(polygon_points1) >= 3

----------------------------------------------------------------------------
(* Claims about the read-outs of SpeedAnalyzer, checked under SpecCount *)

RECURSIVE DenProduct(_, _)
\* the product of the denominators of f over S
DenProduct(f, S) ==
    IF S = {} THEN 1
    ELSE LET x == CHOOSE y \in S : TRUE IN f[x][2] * DenProduct(f, S \ {x})

RECURSIVE NumSum(_, _, _)
\* the sum of f over S as a numerator over the denominator den
NumSum(f, S, den) ==
    IF S = {} THEN 0
    ELSE LET x == CHOOSE y \in S : TRUE
         IN  f[x][1] * (den \div f[x][2]) + NumSum(f, S \ {x}, den)

\* C21: calculate_average_speed is the arithmetic mean of the smoothed speeds
\* that are not zero, and 0 when there is none.
C21_AverageIsMeanOfNonZero ==
    LET f       == speed_analyzer.speeds
        nonzero == {id \in DOMAIN f : f[id][1] # 0}
        den     == DenProduct(f, nonzero)
        avg     == calculate_average_speed(speed_analyzer)
    IN  IF nonzero = {} THEN avg = <<0, 1>>
        ELSE avg = Rat(NumSum(f, nonzero, den), den * Cardinality(nonzero))

\* C21 witness: the two tracks have the smoothed speeds 18 km/h (50 px in 2 s)
\* and 36000/1001 km/h (50 px in 1.001 s); the average is their mean.
C21_Witness ==
    /\ DOMAIN speed_analyzer.speeds = {1, 2}
    /\ speed_analyzer.speeds[1] = <<18, 1>>
    /\ speed_analyzer.speeds[2] = <<36000, 1001>>
    /\ calculate_average_speed(speed_analyzer) = <<27009, 1001>>

----------------------------------------------------------------------------
(* Further claims about the zones of process_frame, checked under Spec *)

\* C22: whenever a track in entered state is processed at a point strictly
\* outside the count polygon it leaves entered state on that frame (and
\* count_exited increases), also when the point is inside the alert polygon;
\* so no track is in entered_ids after a frame that saw it strictly outside.
C22_ExitIndependentOfAlertZone ==
    \A id \in TrackIds :
        (last[id].seen /\ last[id].cz < 0) => id \notin entered_ids

----------------------------------------------------------------------------
(* process_frame for one track that moves between the inside, the edge and *)
(* the outside of the count polygon                                        *)

BoundaryFrames ==
    {<<[box |-> b, id |-> 1, cls |-> 1, score |-> 90]>> : b \in {BoxEdge, BoxC, BoxN}}

BoundaryFrame ==
    \E dets \in BoundaryFrames :
        CallProcessFrame(dets, 1000) /\ UNCHANGED <<speedVars, appVars, callVars>>

NextBoundary == BoundaryFrame

SpecBoundary == Init /\ [][NextBoundary]_vars

\* C23: no frame both enters and exits a track; a frame whose point is exactly
\* on the count polygon boundary enters the track if it is not entered, never
\* exits it, and leaves it entered.
C23_BoundaryInsideForEntryNotOutsideForExit ==
    [][FrameStep
       => \A id \in TrackIds :
            /\ ~(passed_by'[id] > passed_by[id] /\ exited_by'[id] > exited_by[id])
            /\ (last'[id].seen /\ pointPolygonTest(polygon_points, Center(last'[id].box)) = 0)
                => /\ id \in entered_ids'
                   /\ exited_by'[id] = exited_by[id]
                   /\ count_exited' = count_exited
                   /\ passed_by'[id] = passed_by[id] + (IF id \in entered_ids THEN 0 ELSE 1)]_vars

\* C23 witness: the track was on the boundary on five successive frames and is
\* counted as entered once and never as exited.
C23_Witness ==
    /\ nframes = 5
    /\ appended[1] = [k \in 1..5 |-> <<BoxEdge[1], BoxEdge[2]>>]
    /\ CountZoneTest[Center(BoxEdge)] = 0
    /\ count_passed = 1 /\ count_exited = 0
    /\ entered_ids = {1}

----------------------------------------------------------------------------
(* SpeedAnalyzer.update with earlier, equal and barely later timestamps *)

\* the timestamp of a call relative to the previous call, in ms
GuardDeltas == {-500, 0, 1, 2, 1000}

GuardUpdate ==
    \E center \in CountPositions, d \in GuardDeltas :
        Update(1, center, (IF sa_call = <<>> THEN 0 ELSE sa_call.timestamp) + d)

NextGuard == GuardUpdate

SpecGuard == Init /\ [][NextGuard]_vars

\* C24: an update of a known track with timestamp - prev_time <= 0.001 s
\* leaves the track's previous position, previous time, speed buffer and write
\* cursor and every smoothed speed unchanged.
C24_SmallTimeDiffKeepsBaseline ==
    [][(nupdates' # nupdates
        /\ sa_call'.id \in DOMAIN speed_analyzer.tracks
        /\ sa_call'.timestamp - speed_analyzer.tracks[sa_call'.id].prev_time <= 1)
       => LET old == speed_analyzer.tracks[sa_call'.id]
              new == speed_analyzer'.tracks[sa_call'.id]
          IN  /\ new.prev_pos = old.prev_pos
              /\ new.prev_time = old.prev_time
              /\ new.speeds = old.speeds
              /\ new.speed_index = old.speed_index
              /\ speed_analyzer'.speeds = speed_analyzer.speeds]_vars

\* C24 witness: after the accepted sample of 36 km/h, a call with the same
\* timestamp at another position and a call 0.5 s earlier changed nothing of
\* the baseline.
C24_Witness ==
    /\ nupdates = 4
    /\ speed_analyzer.tracks[1].positions = << <<0, 0>>, <<50, 0>>, <<0, 0>>, <<0, 0>> >>
    /\ speed_analyzer.tracks[1].prev_pos = <<50, 0>>
    /\ speed_analyzer.tracks[1].prev_time = 2000
    /\ sa_call.timestamp = 1500
    /\ speed_analyzer.tracks[1].speeds = [EmptyWindow EXCEPT ![1] = <<36, 1>>]
    /\ speed_analyzer.tracks[1].speed_index = 1
    /\ speed_analyzer.speeds[1] = <<36, 1>>

----------------------------------------------------------------------------
(* SpeedAnalyzer.update for one track moving along a line, one call a second *)

\* moves of 0, 50, 100 and 150 px give 0, 36, 72 and 108 km/h; longer ones
\* give more than 200 km/h
WindowPositions == {<<0, 0>>, <<50, 0>>, <<150, 0>>, <<500, 0>>}

WindowUpdate ==
    \E center \in WindowPositions :
        /\ nupdates < MaxStream
        /\ RunUpdate(1, center, (IF sa_call = <<>> THEN 0 ELSE sa_call.timestamp) + 1000)

NextWindow == WindowUpdate

SpecWindow == Init /\ [][NextWindow]_vars

\* the samples of the successive moves along the x axis at one call a second,
\* in units of 1/25 km/h (d px in 1 s at 5 px/m is d * 18 / 25 km/h), and those
\* of them within 0 < v < 200 km/h
MoveSamples(pos) == [k \in 1..(Len(pos) - 1) |-> 18 * Abs(pos[k + 1][1] - pos[k][1])]

SampleAccepted(v) == 0 < v /\ v < 200 * 25

AcceptedSamples(pos) == SelectSeq(MoveSamples(pos), SampleAccepted)

\* C25: after k accepted samples the smoothed speed of the track is the mean
\* of the last min(k, 5) accepted samples, the j-th accepted sample is in slot
\* (j - 1) mod 5 and the cursor is k mod 5, so the sixth overwrites the first.
C25_SmoothedIsMeanOfLastFive ==
    1 \in DOMAIN speed_analyzer.tracks =>
        LET tr  == speed_analyzer.tracks[1]
            acc == AcceptedSamples(tr.positions)
            k   == Len(acc)
            m   == IF k < 5 THEN k ELSE 5
        IN  /\ tr.speed_index = k % 5
            /\ \A j \in (k - m + 1)..k : tr.speeds[((j - 1) % 5) + 1] = Rat(acc[j], 25)
            /\ \A j \in (k + 1)..5 : tr.speeds[j] = RatZero
            /\ IF k = 0 THEN 1 \notin DOMAIN speed_analyzer.speeds
               ELSE /\ 1 \in DOMAIN speed_analyzer.speeds
                    /\ speed_analyzer.speeds[1] = Rat(SumOver(acc, (k - m + 1)..k), 25 * m)

\* C25 witness: six accepted samples 36, 72, 108, 36, 72, 108 km/h; the sixth
\* replaced the first in slot 0 and the smoothed speed is 396/5 km/h.
C25_Witness ==
    /\ nupdates = 7
    /\ speed_analyzer.tracks[1].speeds =
           << <<108, 1>>, <<72, 1>>, <<108, 1>>, <<36, 1>>, <<72, 1>> >>
    /\ speed_analyzer.tracks[1].speed_index = 1
    /\ speed_analyzer.speeds[1] = <<396, 5>>

----------------------------------------------------------------------------
(* The alert timer across an exit from the count zone, checked under Spec *)

\* C26: on the frame that counts a track as exited its entry_time record is
\* gone, warned_ids keeps or lacks the id as before and no alert is emitted for
\* it; a record that appears is the time of that frame, a frame with the point
\* inside the alert polygon; and an alert needs a record that is more than
\* 2.0 s old.
C26_ExitClearsEntryTime ==
    [][FrameStep =>
        \A id \in TrackIds :
            /\ exited_by'[id] > exited_by[id] =>
                   /\ id \notin DOMAIN entry_time'
                   /\ (id \in warned_ids') = (id \in warned_ids)
                   /\ alert_count'[id] = alert_count[id]
            /\ (id \notin DOMAIN entry_time /\ id \in DOMAIN entry_time') =>
                   /\ entry_time'[id] = now'
                   /\ last'[id].seen
                   /\ AlertZoneTest[Center(last'[id].box)] >= 0
                   /\ alert_count'[id] = alert_count[id]
            /\ alert_count'[id] > alert_count[id] =>
                   /\ id \in DOMAIN entry_time
                   /\ now' - entry_time[id] > DWELL_MS]_vars

\* C26 witness: count zone, alert zone (timer recorded), outside both (exit,
\* timer removed), alert zone again (timer recorded anew), alert zone 2.1 s
\* later (alert).
C26_Witness ==
    /\ nframes = 5
    /\ appended[1] = << <<BoxC[1], BoxC[2]>>, <<BoxA[1], BoxA[2]>>, <<BoxN[1], BoxN[2]>>,
                        <<BoxA[1], BoxA[2]>>, <<BoxA[1], BoxA[2]>> >>
    /\ classes_seen[1] = {0}
    /\ exited_by[1] = 1
    /\ alert_count[1] = 1
    /\ entry_time[1] = now - 2100
    /\ warned_ids = {1}

\* C27: a frame with the point inside the alert polygon and a class outside
\* ALERT_OBJ_LIST leaves no entry_time record of the id, emits no alert and
\* starts no playback; a frame with the point inside and an eligible class
\* that finds no record stores the time of that frame and emits no alert.
C27_IneligibleFrameClearsTimer ==
    [][FrameStep =>
        \A id \in TrackIds :
            (last'[id].seen /\ AlertZoneTest[Center(last'[id].box)] >= 0) =>
                /\ last'[id].cls \notin ALERT_OBJ_LIST =>
                       /\ id \notin DOMAIN entry_time'
                       /\ alert_count'[id] = alert_count[id]
                       /\ warned_ids' = warned_ids
                       /\ voice_threads' = voice_threads
                /\ (last'[id].cls \in ALERT_OBJ_LIST /\ id \notin DOMAIN entry_time) =>
                       /\ id \in DOMAIN entry_time'
                       /\ entry_time'[id] = now'
                       /\ alert_count'[id] = alert_count[id]]_vars

\* C27 witness: three frames inside the alert polygon, eligible, not eligible,
\* eligible 2.1 s later: the track has been inside for more than 2 s, its
\* timer starts at the third frame and no alert was emitted.
C27_Witness ==
    /\ nframes = 3
    /\ appended[1] = << <<BoxA[1], BoxA[2]>>, <<BoxA[1], BoxA[2]>>, <<BoxA[1], BoxA[2]>> >>
    /\ classes_seen[1] = {0, 1}
    /\ last[1].cls = 0
    /\ now - in_since[1] > DWELL_MS
    /\ entry_time[1] = now
    /\ alert_count[1] = 0
    /\ voice_threads = <<>>

----------------------------------------------------------------------------
(* The speed updates of update_frame, checked under SpecApp *)

\* C28: the speed analyzer is updated only for the track ids detected in the
\* processed frame: a track whose last update or whose previous-time baseline
\* carries the time of the last frame is among the detections that frame's
\* tracking loop ran over.
C28_OnlyDetectedTracksUpdated ==
    \A id \in DOMAIN speed_analyzer.tracks :
        (speed_analyzer.tracks[id].last_seen = now \/ speed_analyzer.tracks[id].prev_time = now)
            => \E k \in 1..Len(frame_out) : frame_out[k].id = id

----------------------------------------------------------------------------
(* The overlap ratio of nms against calculate_iou, checked under SpecIou *)

\* ovr = inter / (areas[i] + areas[order[1:]] - inter), for one pair of boxes
NmsOverlap(a, b) == Rat(NmsInter(a, b), NmsArea(a) + NmsArea(b) - NmsInter(a, b))

\* C29: for every pair of (x, y, w, h) boxes the overlap ratio nms computes is
\* the value of calculate_iou, and at the threshold 0.4 nms keeps the second
\* box exactly when calculate_iou is at most 0.4.
C29_NmsOverlapIsIou ==
    iou_call # <<>>
    => /\ NmsOverlap(iou_call.box1, iou_call.box2) = iou_call.result
       /\ NmsKeeps(iou_call.box1, iou_call.box2, 4, 10) = ~RatLess(<<2, 5>>, iou_call.result)

----------------------------------------------------------------------------
(* nms called on its own with box arrays of up to MaxNmsBoxes boxes *)

\* a box apart from the others, two that overlap by 0.82, and one that
\* overlaps the first of them by 0.30 and the second by 0.19
NmsBoxes == {BoxN, BoxD, BoxD2, BoxS}

NmsScores == {80, 90}

\* iou_threshold: the default 0.3 and the 0.4 that process_frame passes
NmsThresholds == {<<3, 10>>, <<4, 10>>}

NmsInputs(n) == [1..n -> NmsBoxes \X NmsScores]

\* one call per behaviour: nms reads and writes nothing but its arguments, so
\* a call does not depend on the calls before it
CallNms ==
    /\ nms_call = <<>>
    /\ \E n \in 0..MaxNmsBoxes : \E in \in NmsInputs(n), thr \in NmsThresholds :
        LET boxes  == [k \in 1..n |-> in[k][1]]
            scores == [k \in 1..n |-> in[k][2]]
        IN  \E order \in ArgsortDesc(scores) :
                /\ nms_call' = [boxes |-> boxes, scores |-> scores, thr |-> thr,
                                keep |-> nms(boxes, order, thr[1], thr[2])]
                /\ UNCHANGED <<trackVars, voiceVars, obsVars, speedVars, appVars,
                               updated_ids, iou_call, db_call>>

NextNms == CallNms

SpecNms == Init /\ [][NextNms]_vars

\* C30: nms returns no index for an empty input; for a non-empty input it
\* returns distinct indices of the input such that a box of the highest score
\* is kept, no two kept boxes overlap by more than the threshold, and every
\* dropped box overlaps by more than the threshold a kept box whose score is
\* at least its own.
C30_NmsKeepsMaximalNonOverlapping ==
    nms_call # <<>> =>
        LET b    == nms_call.boxes
            sc   == nms_call.scores
            k    == nms_call.keep
            n    == Len(b)
            K    == SetOf(k)
            over(i, j) == RatLess(nms_call.thr, NmsOverlap(b[i], b[j]))
        IN  IF n = 0 THEN k = <<>>
            ELSE /\ K \subseteq 1..n
                 /\ Cardinality(K) = Len(k)
                 /\ \E i \in K : \A j \in 1..n : sc[i] >= sc[j]
                 /\ \A i \in K, j \in K : i # j => ~over(i, j)
                 /\ \A d \in (1..n) \ K : \E i \in K : over(i, d) /\ sc[i] >= sc[d]

\* C30 witness: of three boxes the one with the highest score is kept, the
\* box that overlaps it by 0.82 is dropped and the one that overlaps it by
\* 0.30 is kept at the threshold 0.4.
C30_Witness ==
    /\ nms_call # <<>>
    /\ nms_call.boxes = <<BoxD2, BoxS, BoxD>>
    /\ nms_call.scores = <<80, 80, 90>>
    /\ nms_call.thr = <<4, 10>>
    /\ nms_call.keep = <<3, 2>>

\* C31: of two boxes with equal scores that overlap by more than the
\* threshold, and that no other box of the input overlaps by more than the
\* threshold, nms keeps the one that comes earlier in the input and drops the
\* later one.
C31_TiesKeepEarlierBox ==
    nms_call # <<>> =>
        LET b    == nms_call.boxes
            sc   == nms_call.scores
            K    == SetOf(nms_call.keep)
            n    == Len(b)
            over(i, j) == RatLess(nms_call.thr, NmsOverlap(b[i], b[j]))
        IN  \A i \in 1..n, j \in 1..n :
                (/\ i < j
                 /\ sc[i] = sc[j]
                 /\ over(i, j)
                 /\ \A k \in (1..n) \ {i, j} : ~over(k, i) /\ ~over(k, j))
                => (i \in K /\ j \notin K)

----------------------------------------------------------------------------
(* The lines of the warning display, checked under Spec *)

\* C32: over a run of frames at most one warning line per track id is
\* appended to the warning display.
C32_OneWarningLinePerId ==
    \A id \in TrackIds :
        Cardinality({k \in 1..Len(warning_display) : warning_display[k] = id}) <= 1

----------------------------------------------------------------------------
(* closeEvent after any sequence of events, checked under SpecApp *)

\* C33: after closeEvent the frame timer is stopped, the capture and the
\* video writer are released and the database connection is closed, whatever
\* events came before.
C33_CloseReleasesResources ==
    last_op = "closeEvent"
    => /\ ~app.timer_active
       /\ app.capture # "open"
       /\ app.videowriter # "open"
       /\ db.closed

----------------------------------------------------------------------------
(* DatabaseUtils called on its own: insert_statistics at intervals below,  *)
(* at and above write_interval, with INSERTs that succeed or fail, and     *)
(* close                                                                   *)

\* time between two calls, in ms
DbDeltas == {1000, 4000, 5000}

\* the snapshot insert_statistics builds at time t from its n-th set of arguments
DbSnapshot(n, t) ==
    [timestamp |-> t, avg_speed |-> RatZero, total_vehicles |-> n,
     current_vehicles |-> 0, frame_count |-> STATUS_EVERY * n]

DbInsert ==
    /\ db_call.n < MaxDbCalls
    /\ \E dt \in DbDeltas, ok \in BOOLEAN :
         LET t        == now + dt
             snapshot == DbSnapshot(db_call.n + 1, t)
         IN  /\ now' = t
             /\ db' = DbInsertStatistics(db, snapshot, t, ok)
             /\ db_call' = DbCall("insert", snapshot, t, ok)
    /\ UNCHANGED <<track_history, entered_ids, entry_time, warned_ids, count_passed,
                   count_exited, nframes, voiceVars, obsVars, speedVars, app, last_op,
                   updated_ids, iou_call, nms_call>>

DbCloseCall ==
    /\ db_call.n < MaxDbCalls
    /\ ~db.closed
    /\ \E ok \in BOOLEAN :
         /\ db' = DbClose(db, now, ok)
         /\ db_call' = DbCall("close", <<>>, now, ok)
    /\ UNCHANGED <<trackVars, voiceVars, obsVars, speedVars, app, last_op,
                   updated_ids, iou_call, nms_call>>

NextDb == DbInsert \/ DbCloseCall

SpecDb == Init /\ [][NextDb]_vars

\* C34: a call of insert_statistics makes its snapshot the latest_data; it
\* appends at most that snapshot as a row, and does so exactly when 5 s or
\* more have passed since last_write_time and the INSERT succeeds; such a row
\* is 5 s or more later than every row before it; last_write_time becomes the
\* time of the call when a row was written and is unchanged otherwise.
C34_InsertWritesAtMostEvery5s ==
    [][(db_call'.n # db_call.n /\ db_call'.op = "insert") =>
        LET c       == db_call'
            written == db'.rows # db.rows
        IN  /\ db'.latest_data = c.snapshot
            /\ written => db'.rows = Append(db.rows, c.snapshot)
            /\ written = (c.t - db.last_write_time >= 5000 /\ c.ok /\ ~db.closed)
            /\ written => \A k \in 1..Len(db.rows) : c.t - db.rows[k].timestamp >= 5000
            /\ db'.last_write_time = IF written THEN c.t ELSE db.last_write_time]_vars

\* C34 witness: snapshots written at 5 s and at 10 s; one that arrived 4 s
\* after the first write and one that arrived 1 s after the second were only
\* stored as latest_data.
C34_Witness ==
    /\ db_call.n = 4 /\ db_call.op = "insert" /\ db_call.ok
    /\ Len(db.rows) = 2
    /\ db.rows[1].timestamp = 5000
    /\ db.rows[2].timestamp = 10000
    /\ db.last_write_time = 10000
    /\ db.latest_data = DbSnapshot(4, 11000)

\* C40: no snapshot is in the table twice, the row written by close included.
C40_SnapshotInsertedAtMostOnce ==
    \A i \in 1..Len(db.rows), j \in 1..Len(db.rows) : i # j => db.rows[i] # db.rows[j]

----------------------------------------------------------------------------
(* The point stored in the history and the point tested, checked under Spec *)

\* C35: the point appended to a track's history in a frame is the center of
\* the track's box, the point tested against the two polygons in that frame.
C35_HistoryPointIsTestedCenter ==
    \A id \in TrackIds :
        last[id].seen =>
            /\ id \in DOMAIN track_history
            /\ track_history[id][Len(track_history[id])] = Center(last[id].box)

----------------------------------------------------------------------------
(* process_frame on frames with two tracks that move between the count     *)
(* zone, the alert zone and the outside                                     *)

OccupancyBoxes == {BoxC, BoxA, BoxN}

\* each of the tracks 1 and 2 is absent or detected at one of the boxes
OccupancyFrames ==
    {<<>>}
    \cup {<<[box |-> b, id |-> i, cls |-> 0, score |-> 90]>> : b \in OccupancyBoxes, i \in TrackIds}
    \cup {<<[box |-> b1, id |-> 1, cls |-> 0, score |-> 90],
            [box |-> b2, id |-> 2, cls |-> 0, score |-> 80]>> :
               b1 \in OccupancyBoxes, b2 \in OccupancyBoxes}

OccupancyFrame ==
    \E dets \in OccupancyFrames :
        /\ nframes < MaxOccupancyFrames
        /\ RunProcessFrame(dets, 1000)
        /\ UNCHANGED <<speedVars, appVars, callVars>>

NextOccupancy == OccupancyFrame

SpecOccupancy == Init /\ [][NextOccupancy]_vars

\* C36: after every process_frame call count_passed - count_exited is the
\* number of ids in entered_ids; so the difference is not negative and
\* count_exited is at most count_passed.
C36_CountDifferenceIsOccupancy ==
    /\ count_passed - count_exited = Cardinality(entered_ids)
    /\ count_passed - count_exited >= 0
    /\ count_exited <= count_passed

\* C36 witness: both tracks entered, track 1 left and entered again.
C36_Witness ==
    /\ nframes = 3
    /\ count_passed = 3
    /\ count_exited = 1
    /\ entered_ids = {1, 2}
    /\ passed_by[1] = 2 /\ exited_by[1] = 1

----------------------------------------------------------------------------
(* The buffer of a track after any sequence of updates, under SpecWindow *)

\* C37: for every track of the analyzer the write cursor is in 0..4, each of
\* the 5 slots is 0 or strictly between 0 and 200, the number of non-zero
\* slots is min(number of accepted samples, 5), and a smoothed speed is
\* stored exactly for the tracks with an accepted sample and is strictly
\* between 0 and 200.
C37_BufferWellFormed ==
    \A id \in DOMAIN speed_analyzer.tracks :
        LET tr == speed_analyzer.tracks[id]
            k  == Len(AcceptedSamples(tr.positions))
            nz == {j \in 1..Len(tr.speeds) : tr.speeds[j] # RatZero}
            between(v) == v[2] > 0 /\ 0 < v[1] /\ v[1] < 200 * v[2]
        IN  /\ tr.speed_index \in 0..4
            /\ Len(tr.speeds) = 5
            /\ \A j \in 1..Len(tr.speeds) : tr.speeds[j] = RatZero \/ between(tr.speeds[j])
            /\ Cardinality(nz) = (IF k < 5 THEN k ELSE 5)
            /\ (id \in DOMAIN speed_analyzer.speeds) = (k >= 1)
            /\ id \in DOMAIN speed_analyzer.speeds => between(speed_analyzer.speeds[id])

\* C37 witness: moves of 50, 0, 450, 350, 100 and 50 px: three samples were
\* accepted (36, 72, 36 km/h), one of 0 km/h and two above 200 km/h were not.
C37_Witness ==
    /\ nupdates = 7
    /\ speed_analyzer.tracks[1].positions =
           << <<0, 0>>, <<50, 0>>, <<50, 0>>, <<500, 0>>, <<150, 0>>, <<50, 0>>, <<0, 0>> >>
    /\ speed_analyzer.tracks[1].speed_index = 3
    /\ speed_analyzer.tracks[1].speeds =
           << <<36, 1>>, <<72, 1>>, <<36, 1>>, RatZero, RatZero >>
    /\ speed_analyzer.speeds[1] = <<48, 1>>

----------------------------------------------------------------------------
(* The cumulative vehicle count and track_history, checked under SpecApp *)

\* C38: the vehicle count of the speed analyzer is the number of track ids in
\* track_history after every handler, update_frame included, and a
\* start_processing with a source selected leaves both empty.
C38_VehicleCountIsHistorySize ==
    /\ get_vehicle_count(speed_analyzer) = Cardinality(DOMAIN track_history)
    /\ speed_analyzer.all = DOMAIN track_history
    /\ (last_op = "start_processing" /\ (app.using_camera \/ app.video_ok))
         => (speed_analyzer.all = {} /\ track_history = EmptyMap)

\* C38 witness: track 1 was appended twice in all, but a start_processing in
\* between reset the history and the analyzer: the history holds one point and
\* the vehicle count is 1.
C38_Witness ==
    /\ last_op = "update_frame"
    /\ Len(appended[1]) = 2
    /\ DOMAIN track_history = {1}
    /\ Len(track_history[1]) = 1
    /\ get_vehicle_count(speed_analyzer) = 1

----------------------------------------------------------------------------
(* The playback threads under fair scheduling, with speech-engine calls    *)
(* that return                                                              *)

\* a track id starts at most one thread, so the threads are numbered 1..2
VoiceThreadIds == 1..Cardinality(TrackIds)

AcquireOf(i) == i \in Threads /\ Acquire(i)

SayOf(i) == i \in Threads /\ Say(i)

RunAndWaitOf(i) == i \in Threads /\ RunAndWait(i)

NextVoiceLive == VoiceFrame \/ ThreadAcquire \/ ThreadSay \/ ThreadRunAndWait

\* a started thread is scheduled: it takes the lock when the lock stays free,
\* and each of its engine calls returns
VoiceFairness ==
    \A i \in VoiceThreadIds :
        WF_vars(AcquireOf(i)) /\ WF_vars(SayOf(i)) /\ WF_vars(RunAndWaitOf(i))

SpecVoiceLive == Init /\ [][NextVoiceLive]_vars /\ VoiceFairness

PlaybacksDone == Cardinality({i \in Threads : voice_threads[i] = "done"})

\* C39: every started playback thread eventually has completed its playback,
\* a held lock is eventually free again, one thread is started per id added
\* to warned_ids, and eventually the number of completed playbacks is the
\* number of ids added to warned_ids.
C39_EveryPlaybackCompletes ==
    /\ \A i \in VoiceThreadIds :
           (i \in Threads) ~> (i \in Threads /\ voice_threads[i] = "done")
    /\ (engine_lock # 0) ~> (engine_lock = 0)
    /\ [](Len(voice_threads) = Cardinality(warned_ids))
    /\ <>[](PlaybacksDone = Cardinality(warned_ids))

\* C39 witness: two threads were started, a frame was processed while one of
\* them held the lock, and both have completed their playback.
C39_Witness ==
    /\ voice_threads = <<"done", "done">>
    /\ engine_lock = 0
    /\ warned_ids = {1, 2}
    /\ locked_frames >= 1

====
